---- MODULE Spec2Model ----
(***************************************************************************)
(* Model of the critique/revision controller of src/main.py: the session   *)
(* loop reading questions, the bounded revision loop around the research   *)
(* and the critic agents, the search tool, and the artifact files the      *)
(* controller writes (output.txt, critic_thoughts.txt, tool_log.jsonl).    *)
(*                                                                         *)
(* Text is modelled as a sequence of one-character strings, so that strip, *)
(* upper, lower, startswith and the substring test `in` are computed and   *)
(* not assumed.                                                            *)
(***************************************************************************)
EXTENDS Integers, Sequences, FiniteSets, TLC

VARIABLES
    pc,               \* where the main thread is blocked
    user_query,       \* main.py:260
    critique_rounds,  \* main.py:271
    revision_rounds,  \* main.py:272
    current_text,     \* main.py:279, 339
    critic_result,    \* main.py:288, the text of the critic's last message
    decision,         \* main.py:293
    messages,         \* the message history of the latest agent.invoke
    output,           \* content of OUTPUT_DISK_PATH
    critic_log,       \* blocks appended to CRITIC_LOG_PATH
    tool_log,         \* records appended to TOOL_LOG_PATH
    log_mark,         \* length of the critic log when the question was read
    search_call,      \* the internet_search call in progress, or NoCall
    printed,          \* what the latest step of the main thread printed
    missing_printed,  \* the section names listed by the latest format warning
    research_calls,   \* agent.invoke calls made for the current question
    critic_calls,     \* critic.invoke calls made for the current question
    questions,        \* non-empty questions accepted in this session
    searches,         \* internet_search calls started in this session
    now               \* the wall clock

vars == <<pc, user_query, critique_rounds, revision_rounds, current_text,
          critic_result, decision, messages, output, critic_log, tool_log, search_call, printed,
          missing_printed, research_calls, critic_calls, questions, searches,
          log_mark, now>>

-----------------------------------------------------------------------------
(* Bounds of the model *)

\* a new question is accepted only while the critic log is shorter than this
MaxCriticLog == 3

MaxSearches == 1

MaxTime == 1

-----------------------------------------------------------------------------
(* Program constants *)

MAX_REVISIONS == 3

-----------------------------------------------------------------------------
(* Text *)

NL == <<"\n">>

SP == <<" ">>

Whitespace == {" ", "\n", "\t", "\r"}

LowerCase == <<"a","b","c","d","e","f","g","h","i","j","k","l","m",
               "n","o","p","q","r","s","t","u","v","w","x","y","z">>

UpperCase == <<"A","B","C","D","E","F","G","H","I","J","K","L","M",
               "N","O","P","Q","R","S","T","U","V","W","X","Y","Z">>

UpperChar(c) ==
    IF \E i \in 1..26 : LowerCase[i] = c
    THEN UpperCase[CHOOSE i \in 1..26 : LowerCase[i] = c]
    ELSE c

LowerChar(c) ==
    IF \E i \in 1..26 : UpperCase[i] = c
    THEN LowerCase[CHOOSE i \in 1..26 : UpperCase[i] = c]
    ELSE c

Upper(s) == [i \in 1..Len(s) |-> UpperChar(s[i])]

Lower(s) == [i \in 1..Len(s) |-> LowerChar(s[i])]

SetMin(S) == CHOOSE x \in S : \A y \in S : x <= y

SetMax(S) == CHOOSE x \in S : \A y \in S : x >= y

Strip(s) ==
    LET keep == {i \in 1..Len(s) : s[i] \notin Whitespace}
    IN  IF keep = {} THEN <<>> ELSE SubSeq(s, SetMin(keep), SetMax(keep))

StartsWith(s, p) == Len(s) >= Len(p) /\ SubSeq(s, 1, Len(p)) = p

Contains(s, p) ==
    \E i \in 0..(Len(s) - Len(p)) : \A k \in 1..Len(p) : s[i + k] = p[k]

IsPrefix(s, t) == Len(s) <= Len(t) /\ SubSeq(t, 1, Len(s)) = s

Digits == <<"0","1","2","3","4","5","6","7","8","9">>

RECURSIVE Str(_)
Str(n) == IF n < 10 THEN <<Digits[n + 1]>>
          ELSE Str(n \div 10) \o <<Digits[(n % 10) + 1]>>

-----------------------------------------------------------------------------
(* The literals of the program *)

TitleHeader == <<"T","i","t","l","e",":">>

OverviewHeader == <<"O","v","e","r","v","i","e","w",":">>

MainDiscussionHeader == <<"M","a","i","n"," ","D","i","s","c","u","s","s","i","o","n",":">>

KeyTakeawaysHeader == <<"K","e","y"," ","T","a","k","e","a","w","a","y","s",":">>

SourcesHeader == <<"S","o","u","r","c","e","s",":">>

required == <<TitleHeader, OverviewHeader, MainDiscussionHeader,
              KeyTakeawaysHeader, SourcesHeader>>

ENOUGH == <<"E","N","O","U","G","H">>

REVISE == <<"R","E","V","I","S","E">>

EXIT == <<"\\","e","x","i","t">>

Indent == [i \in 1..16 |-> " "]

FeedbackHead == <<"C","R","I","T","I","C"," ","F","E","E","D","B","A","C","K",":","\n">>

RulesHead == <<"R","u","l","e","s",":","\n">>

CritiqueRoundsLabel == <<"C","r","i","t","i","q","u","e"," ","r","o","u","n","d","s",":"," ">>

RevisionRoundsLabel == <<","," ","R","e","v","i","s","i","o","n"," ","r","o","u","n","d","s",":"," ">>

-----------------------------------------------------------------------------
(* The inputs the environment may supply *)

Url == <<"h","t","t","p",":","/","/","e","x","a","m","p","l","e",".","c","o","m">>

Body(header, line) == header \o NL \o line \o NL

\* an answer with the five sections in order
ConformingText ==
    Body(TitleHeader, <<"X">>) \o Body(OverviewHeader, <<"Y">>)
    \o Body(MainDiscussionHeader, <<"Z">>)
    \o Body(KeyTakeawaysHeader, <<"-"," ","a">>)
    \o SourcesHeader \o NL \o <<"-"," ">> \o Url

\* an answer without the Sources section, surrounded by white space
NoSourcesText ==
    SP \o Body(TitleHeader, <<"X">>) \o Body(OverviewHeader, <<"Y">>)
    \o Body(MainDiscussionHeader, <<"Z">>)
    \o Body(KeyTakeawaysHeader, <<"-"," ","a">>) \o NL

\* an answer with the five sections, Sources first
ShuffledText ==
    Body(SourcesHeader, <<"-"," ">> \o Url) \o Body(TitleHeader, <<"X">>)
    \o Body(OverviewHeader, <<"Y">>) \o Body(MainDiscussionHeader, <<"Z">>)
    \o KeyTakeawaysHeader \o NL \o <<"-"," ","a">>

ResearchTexts == {ConformingText, NoSourcesText, ShuffledText}

FixCite == <<"-"," ","c","i","t","e">>

FixTrim == <<"-"," ","t","r","i","m">>

ReviseWithFixes == REVISE \o <<":">> \o NL \o FixCite \o NL \o FixTrim

ReviseNoColon == <<"R","e","v","i","s","e"," ","t","h","e"," ","i","n","t","r","o">>

Unrecognised == <<" ","O","K","\n">>

CriticResponses == {ENOUGH, ReviseWithFixes, ReviseNoColon, Unrecognised}

QuestionWhy == <<" ","w","h","y","?"," ">>

ExitLine == <<" ","\\","E","x","i","t"," ">>

InputLines == {QuestionWhy, ExitLine, <<>>, SP \o SP}

Queries == {"why"}

MaxResults == {5}

Topics == {"news"}

RawContent == {TRUE}

\* what tavily_client.search may return: a dict with a list under "results",
\* a dict without that key, or a value that is no dict
SearchResults ==
    { [isdict |-> TRUE,  haskey |-> TRUE,  results |-> <<"r1", "r2">>],
      [isdict |-> TRUE,  haskey |-> FALSE, results |-> <<>>],
      [isdict |-> FALSE, haskey |-> FALSE, results |-> <<>>] }

NoCall == [active |-> FALSE]

-----------------------------------------------------------------------------
(* The functions of the program *)

write_output_unstripped(text) == text \o NL

write_output_truncated(text) ==
    SubSeq(Strip(text), 1, IF Len(Strip(text)) < 60 THEN Len(Strip(text)) ELSE 60)
    \o NL

write_output_empty(text) == <<>>

\* main.py:88-91: the new content of output.txt (the file is opened with "w")
write_output(text) == Strip(text) \o NL

append_critic_thoughts_zero_based(log, text, round_num, ts) ==
    Append(log, [round |-> round_num - 1, ts |-> ts, text |-> Strip(text) \o NL])

append_critic_thoughts_truncating(log, text, round_num, ts) ==
    <<[round |-> round_num, ts |-> ts, text |-> Strip(text) \o NL]>>

\* main.py:81-85: the new content of critic_thoughts.txt (opened with "a");
\* a block is the header line with the round and the time, then the text
append_critic_thoughts(log, text, round_num, ts) ==
    Append(log, [round |-> round_num, ts |-> ts, text |-> Strip(text) \o NL])

missing_sections_but_last(output_text) ==
    SelectSeq(SubSeq(required, 1, Len(required) - 1),
              LAMBDA s : ~Contains(output_text, s))

\* main.py:96-97
missing_sections(output_text) ==
    SelectSeq(required, LAMBDA s : ~Contains(output_text, s))

\* main.py:94-102: what the guard prints
warn_if_output_missing_sections(output_text) ==
    IF missing_sections(output_text) # <<>>
    THEN <<"FORMAT WARNING", "critic should request revision">>
    ELSE <<>>

\* main.py:48
n_results(result) ==
    IF result.isdict /\ result.haskey THEN Len(result.results) ELSE 0

\* main.py:51-63: the new content of tool_log.jsonl (opened with "a")
tool_log_record(call, dt, n) ==
    [tool |-> "internet_search", ts |-> call.ts, query |-> call.query,
     took_sec |-> dt, n_results |-> n]

is_exit_case_sensitive(query) == query = EXIT

\* main.py:262
is_exit(query) == Lower(query) = EXIT

is_empty_never(query) == FALSE

\* main.py:266
is_empty(query) == query = <<>>

fresh_counter_kept(previous) == previous

\* main.py:271-272: the value a round counter gets when a question starts
fresh_counter(previous) == 0

loop_condition_inclusive(rounds) == rounds <= MAX_REVISIONS

loop_condition_strict(rounds) == rounds < MAX_REVISIONS - 1

\* main.py:285
loop_condition(rounds) == rounds < MAX_REVISIONS

\* main.py:299
is_enough(d) == StartsWith(Upper(d), ENOUGH)

\* main.py:302
is_revise(d) == StartsWith(Upper(d), REVISE)

critic_branch_swapped(d) ==
    IF is_revise(d) THEN "enough"
    ELSE IF ~is_enough(d) THEN "unexpected"
    ELSE "revise"

\* main.py:299-306: what the loop does with a decision
critic_branch(d) ==
    IF is_enough(d) THEN "enough"
    ELSE IF ~is_revise(d) THEN "unexpected"
    ELSE "revise"

revision_prompt_without_feedback(d, critique, revision) ==
    Indent \o FeedbackHead
    \o Indent \o NL \o NL
    \o Indent \o RulesHead
    \o Indent \o CritiqueRoundsLabel \o Str(critique)
              \o RevisionRoundsLabel \o Str(revision) \o NL

\* main.py:308-327: the lines of the template that carry a value are kept with
\* their indentation; the fixed instruction sentences between them are left out
revision_prompt(d, critique, revision) ==
    Indent \o FeedbackHead
    \o Indent \o d \o NL \o NL
    \o Indent \o RulesHead
    \o Indent \o CritiqueRoundsLabel \o Str(critique)
              \o RevisionRoundsLabel \o Str(revision) \o NL

\* main.py:275
initial_messages(query) == <<[role |-> "user", content |-> query]>>

revision_messages_without_answer(text, prompt) ==
    <<[role |-> "user", content |-> prompt]>>

\* main.py:330-335
revision_messages(text, prompt) ==
    <<[role |-> "assistant", content |-> text],
      [role |-> "user", content |-> prompt]>>

\* main.py:345-351
end_of_question == <<"Artifacts written to:", "Ready for next question">>

-----------------------------------------------------------------------------
(* The state after start-up, main.py:257: nothing asked yet, the artifacts *)
(* directory fresh                                                         *)

Init ==
    /\ pc = "input"
    /\ user_query = <<>>
    /\ critique_rounds = 0
    /\ revision_rounds = 0
    /\ current_text = <<>>
    /\ critic_result = <<>>
    /\ decision = <<>>
    /\ messages = <<>>
    /\ output = <<>>
    /\ critic_log = <<>>
    /\ tool_log = <<>>
    /\ log_mark = 0
    /\ search_call = NoCall
    /\ printed = <<"Deep Research Agent started">>
    /\ missing_printed = <<>>
    /\ research_calls = 0
    /\ critic_calls = 0
    /\ questions = 0
    /\ searches = 0
    /\ now = 0

-----------------------------------------------------------------------------
(* The steps of the main thread, each from one blocking call to the next *)

\* main.py:260-277: a line is read; the sentinel ends the session, an empty
\* line is reported, anything else starts a question
ReadInput(line) ==
    /\ pc = "input"
    /\ user_query' = Strip(line)
    /\ missing_printed' = <<>>
    /\ IF is_exit(Strip(line))
       THEN /\ printed' = <<"Exiting. Goodbye!">>
            /\ pc' = "exited"
            /\ UNCHANGED <<critique_rounds, revision_rounds, messages,
                           research_calls, critic_calls, questions, log_mark>>
       ELSE IF is_empty(Strip(line))
       THEN /\ printed' = <<"Please enter a non-empty question.">>
            /\ pc' = "input"
            /\ UNCHANGED <<critique_rounds, revision_rounds, messages,
                           research_calls, critic_calls, questions, log_mark>>
       ELSE /\ Len(critic_log) < MaxCriticLog
            /\ questions' = questions + 1
            /\ log_mark' = Len(critic_log)
            /\ critique_rounds' = fresh_counter(critique_rounds)
            /\ revision_rounds' = fresh_counter(revision_rounds)
            /\ messages' = initial_messages(Strip(line))
            /\ research_calls' = 1
            /\ critic_calls' = 0
            /\ printed' = <<>>
            /\ pc' = "research"
    /\ UNCHANGED <<current_text, critic_result, decision, output, critic_log,
                   tool_log, search_call, searches, now>>

\* main.py:260: input() raises EOFError at the end of the input; nothing
\* catches it
ReadEOF ==
    /\ pc = "input"
    /\ pc' = "crashed"
    /\ printed' = <<"Traceback">>
    /\ UNCHANGED <<user_query, critique_rounds, revision_rounds, current_text,
                   critic_result, decision, messages, output, critic_log,
                   tool_log, search_call, missing_printed, research_calls,
                   critic_calls, questions, searches, log_mark,
                   now>>

\* main.py:285-291 after an answer was persisted: the loop test, then either
\* the next critic call or the end of the question
EnterLoop(prints) ==
    IF loop_condition(revision_rounds)
    THEN /\ critique_rounds' = critique_rounds + 1
         /\ critic_calls' = critic_calls + 1
         /\ printed' = prints
         /\ pc' = "critic"
    ELSE /\ printed' = prints \o end_of_question
         /\ pc' = "input"
         /\ UNCHANGED <<critique_rounds, critic_calls>>

\* main.py:279-283 and 339-343: agent.invoke returns with an answer
ResearchReturns(text) ==
    /\ pc \in {"research", "revise"}
    /\ ~search_call.active
    /\ current_text' = text
    /\ missing_printed' = missing_sections(text)
    /\ output' = write_output(text)
    /\ EnterLoop(<<IF pc = "research" THEN "INITIAL OUTPUT"
                                      ELSE "REVISED OUTPUT", "answer">>
                 \o warn_if_output_missing_sections(text))
    /\ UNCHANGED <<user_query, revision_rounds, critic_result, decision,
                   messages, critic_log, tool_log, search_call,
                   research_calls, questions, searches, log_mark, now>>

\* main.py:293-337: critic.invoke returns with a response
CriticReturns(response) ==
    /\ pc = "critic"
    /\ critic_result' = response
    /\ decision' = Strip(response)
    /\ critic_log' = append_critic_thoughts(critic_log, decision',
                                            critique_rounds, now)
    /\ missing_printed' = <<>>
    /\ CASE critic_branch(decision') = "enough" ->
              /\ printed' = <<"CRITIC DECISION", "decision">>
                            \o end_of_question
              /\ pc' = "input"
              /\ UNCHANGED <<revision_rounds, messages, research_calls>>
         [] critic_branch(decision') = "unexpected" ->
              /\ printed' = <<"CRITIC DECISION", "decision",
                              "Unexpected critic response. Stopping revisions.">>
                            \o end_of_question
              /\ pc' = "input"
              /\ UNCHANGED <<revision_rounds, messages, research_calls>>
         [] critic_branch(decision') = "revise" ->
              /\ revision_rounds' = revision_rounds + 1
              /\ messages' = revision_messages(current_text,
                                revision_prompt(decision', critique_rounds,
                                                revision_rounds + 1))
              /\ research_calls' = research_calls + 1
              /\ printed' = <<"CRITIC DECISION", "decision">>
              /\ pc' = "revise"
    /\ UNCHANGED <<user_query, critique_rounds, current_text, output,
                   tool_log, search_call, critic_calls, questions, searches,
                   log_mark, now>>

\* the fault is caught and the call made again
ResearchFaults_retried ==
    /\ pc \in {"research", "revise"}
    /\ ~search_call.active
    /\ research_calls <= MAX_REVISIONS + 1
    /\ research_calls' = research_calls + 1
    /\ printed' = <<"Traceback">>
    /\ UNCHANGED <<pc, user_query, critique_rounds, revision_rounds,
                   current_text, critic_result, decision, messages, output,
                   critic_log, tool_log, search_call, missing_printed,
                   critic_calls, questions, searches, log_mark,
                   now>>

\* the output file was opened for writing before the call was made
ResearchFaults_truncating ==
    /\ pc \in {"research", "revise"}
    /\ ~search_call.active
    /\ pc' = "crashed"
    /\ printed' = <<"Traceback">>
    /\ output' = <<>>
    /\ UNCHANGED <<user_query, critique_rounds, revision_rounds, current_text,
                   critic_result, decision, messages, critic_log, tool_log,
                   search_call, missing_printed, research_calls, critic_calls,
                   questions, searches, log_mark, now>>

\* an exception leaves agent.invoke (main.py:274, 329): nothing catches it
ResearchFaults ==
    /\ pc \in {"research", "revise"}
    /\ ~search_call.active
    /\ pc' = "crashed"
    /\ printed' = <<"Traceback">>
    /\ UNCHANGED <<user_query, critique_rounds, revision_rounds, current_text,
                   critic_result, decision, messages, output, critic_log, tool_log, search_call,
                   missing_printed, research_calls, critic_calls, questions,
                   searches, log_mark, now>>

\* an exception leaves critic.invoke (main.py:288): nothing catches it
CriticFaults ==
    /\ pc = "critic"
    /\ pc' = "crashed"
    /\ printed' = <<"Traceback">>
    /\ UNCHANGED <<user_query, critique_rounds, revision_rounds, current_text,
                   critic_result, decision, messages, output, critic_log, tool_log, search_call,
                   missing_printed, research_calls, critic_calls, questions,
                   searches, log_mark, now>>

-----------------------------------------------------------------------------
(* The search tool, called by the research agent while it runs *)

\* main.py:36-40: the call is stamped and tavily_client.search is entered
SearchStarts(query, max_results, topic, include_raw_content) ==
    /\ pc \in {"research", "revise"}
    /\ ~search_call.active
    /\ searches < MaxSearches
    /\ searches' = searches + 1
    /\ search_call' = [active |-> TRUE, query |-> query,
                       max_results |-> max_results, topic |-> topic,
                       include_raw_content |-> include_raw_content,
                       ts |-> now, t0 |-> now]
    /\ UNCHANGED <<pc, printed, user_query, critique_rounds, revision_rounds,
                   current_text, critic_result, decision, messages, output, critic_log, tool_log,
                   missing_printed, research_calls, critic_calls, questions,
                   log_mark, now>>

\* main.py:46-65: the search returned; the record is appended
SearchReturns(result) ==
    /\ search_call.active
    /\ tool_log' = Append(tool_log,
                     tool_log_record(search_call, now - search_call.t0,
                                     n_results(result)))
    /\ search_call' = NoCall
    /\ UNCHANGED <<pc, printed, user_query, critique_rounds, revision_rounds,
                   current_text, critic_result, decision, messages, output, critic_log,
                   missing_printed, research_calls, critic_calls, questions,
                   searches, log_mark, now>>

\* main.py:40: tavily_client.search raises; internet_search is left at once
SearchFaults ==
    /\ search_call.active
    /\ search_call' = NoCall
    /\ UNCHANGED <<pc, user_query, critique_rounds, revision_rounds,
                   current_text, critic_result, decision, messages, output, critic_log, tool_log,
                   printed, missing_printed, research_calls, critic_calls,
                   questions, searches, log_mark, now>>

\* time passes
Tick ==
    /\ pc \notin {"exited", "crashed"}
    /\ now < MaxTime
    /\ now' = now + 1
    /\ UNCHANGED <<pc, user_query, critique_rounds, revision_rounds,
                   current_text, critic_result, decision, messages, output, critic_log, tool_log,
                   search_call, printed, missing_printed, research_calls,
                   critic_calls, questions, searches, log_mark>>

Next ==
    \/ \E line \in InputLines : ReadInput(line)
    \/ ReadEOF
    \/ \E text \in ResearchTexts : ResearchReturns(text)
    \/ \E response \in CriticResponses : CriticReturns(response)
    \/ ResearchFaults
    \/ CriticFaults
    \/ \E q \in Queries, m \in MaxResults, t \in Topics, r \in RawContent :
          SearchStarts(q, m, t, r)
    \/ \E result \in SearchResults : SearchReturns(result)
    \/ SearchFaults

\* every input of the session, the clock standing still
Spec == Init /\ [][Next]_vars

\* the session on fewer texts, with time passing
TimedNext ==
    \/ \E line \in {QuestionWhy, ExitLine} : ReadInput(line)
    \/ ReadEOF
    \/ ResearchReturns(ConformingText)
    \/ \E response \in {ENOUGH, ReviseWithFixes} : CriticReturns(response)
    \/ ResearchFaults
    \/ CriticFaults
    \/ \E q \in Queries, m \in MaxResults, t \in Topics, r \in RawContent :
          SearchStarts(q, m, t, r)
    \/ \E result \in SearchResults : SearchReturns(result)
    \/ SearchFaults
    \/ Tick

TimedSpec == Init /\ [][TimedNext]_vars

\* the session when every call returns: no exception leaves a collaborator or
\* the search, and a call that can return does
ReturningNext ==
    \/ \E line \in InputLines : ReadInput(line)
    \/ \E text \in {ConformingText, NoSourcesText} : ResearchReturns(text)
    \/ \E response \in CriticResponses : CriticReturns(response)
    \/ \E q \in Queries, m \in MaxResults, t \in Topics, r \in RawContent :
          SearchStarts(q, m, t, r)
    \/ \E result \in SearchResults : SearchReturns(result)

LiveSpec ==
    /\ Init
    /\ [][ReturningNext]_vars
    /\ WF_vars(\E text \in {ConformingText, NoSourcesText} : ResearchReturns(text))
    /\ WF_vars(\E response \in CriticResponses : CriticReturns(response))
    /\ WF_vars(\E result \in SearchResults : SearchReturns(result))

-----------------------------------------------------------------------------
(* Properties *)

InLoop == pc \in {"research", "revise", "critic"}

\* C1: in every reachable state revision_rounds lies between 0 and
\* MAX_REVISIONS, whatever the question and the critic's responses
C1_RevisionRoundsBounded ==
    revision_rounds \in 0..MAX_REVISIONS

\* the ceiling is reached: three revisions were made for one question
C1_Witness ==
    /\ revision_rounds = MAX_REVISIONS
    /\ pc = "input"

\* C2: when every collaborator call returns, a question that is being worked
\* on always gets back to the prompt, after at most 1 + MAX_REVISIONS
\* research calls and at most MAX_REVISIONS critic calls
C2_LoopTerminates ==
    /\ InLoop ~> (pc = "input")
    /\ [](research_calls <= 1 + MAX_REVISIONS /\ critic_calls <= MAX_REVISIONS)

\* a question ended after the largest number of calls
C2_Witness ==
    /\ pc = "input"
    /\ research_calls = 1 + MAX_REVISIONS
    /\ critic_calls = MAX_REVISIONS

-----------------------------------------------------------------------------
(* Vocabulary of the properties below *)

\* a step in which critic.invoke returned
CriticStep == pc = "critic" /\ pc' \in {"input", "revise"}

\* a step in which agent.invoke returned
ResearchStep == pc \in {"research", "revise"} /\ pc' \in {"critic", "input"}

Range(f) == {f[i] : i \in DOMAIN f}

LineStarts(s) == {1} \cup {i + 1 : i \in {j \in 1..Len(s) : s[j] = "\n"}}

LineAt(s, a) ==
    LET ends == {j \in a..Len(s) : s[j] = "\n"}
    IN  SubSeq(s, a, IF ends = {} THEN Len(s) ELSE SetMin(ends) - 1)

\* the fix lines of a response: its non-blank lines after the first
FixLines(response) ==
    {Strip(LineAt(response, a)) : a \in LineStarts(response) \ {1}} \ {<<>>}

At(s, h) ==
    {i \in 1..(Len(s) - Len(h) + 1) : \A k \in 1..Len(h) : s[i + k - 1] = h[k]}

HeadersInOrder(s) ==
    \E i1 \in At(s, required[1]), i2 \in At(s, required[2]),
       i3 \in At(s, required[3]), i4 \in At(s, required[4]),
       i5 \in At(s, required[5]) :
         i1 < i2 /\ i2 < i3 /\ i3 < i4 /\ i4 < i5

\* t is s without its leading and trailing white space
IsTrimOf(t, s) ==
    \E a \in 0..Len(s), b \in 0..Len(s) :
        /\ a + b = Len(s) - Len(t)
        /\ \A i \in 1..a : s[i] \in Whitespace
        /\ \A i \in (Len(s) - b + 1)..Len(s) : s[i] \in Whitespace
        /\ t # <<>> => (t[1] \notin Whitespace /\ t[Len(t)] \notin Whitespace)
        /\ t = SubSeq(s, a + 1, Len(s) - b)

\* output.txt holds the current answer, trimmed, and a final newline
OutputIsTrimmedAnswer(file, answer) ==
    /\ file # <<>>
    /\ file[Len(file)] = "\n"
    /\ IsTrimOf(SubSeq(file, 1, Len(file) - 1), answer)

\* the message the research agent is asked to act on
Feedback(history) == history[Len(history)]

-----------------------------------------------------------------------------
\* C3: when the critic's response is exactly ENOUGH, in whatever round, the
\* question ends in that step: revision_rounds keeps its value, no research
\* call is made and output.txt is not written
C3_EnoughEndsLoop ==
    [][(CriticStep /\ critic_result' = ENOUGH) =>
          /\ pc' = "input"
          /\ revision_rounds' = revision_rounds
          /\ research_calls' = research_calls
          /\ messages' = messages
          /\ output' = output]_vars

\* ENOUGH was answered in the third round, after two revisions
C3_Witness ==
    /\ pc = "input"
    /\ critic_result = ENOUGH
    /\ critique_rounds = 3
    /\ revision_rounds = 2

\* C4: when the critic's response begins with REVISE: and has at least one fix
\* line, revision_rounds grows by one and the research agent is called once
\* more, with a user message that contains every fix line of the response
C4_ReviseInvokesWithFixes ==
    [][(CriticStep /\ StartsWith(critic_result', REVISE \o <<":">>)
                   /\ FixLines(critic_result') # {}) =>
          /\ revision_rounds < MAX_REVISIONS
          /\ revision_rounds' = revision_rounds + 1
          /\ research_calls' = research_calls + 1
          /\ pc' = "revise"
          /\ Feedback(messages').role = "user"
          /\ \A fix \in FixLines(critic_result') :
                Contains(Feedback(messages').content, fix)]_vars

\* a revision was asked for with the two fix lines
C4_Witness ==
    /\ pc = "revise"
    /\ critic_result = ReviseWithFixes
    /\ FixLines(critic_result) = {FixCite, FixTrim}
    /\ research_calls = 1 + revision_rounds

\* C5 as stated: on every revision the message history contains the original
\* question and the critic's fix list
C5_AsStated ==
    pc = "revise" =>
        /\ \E i \in DOMAIN messages : Contains(messages[i].content, user_query)
        /\ Contains(Feedback(messages).content, decision)

\* C5 (amended): on every revision the message history is the previous answer
\* as an assistant message followed by one user message that contains the
\* critic's response; no user message of it is the original question
C5_RevisionHistory ==
    pc = "revise" =>
        /\ Len(messages) = 2
        /\ messages[1] = [role |-> "assistant", content |-> current_text]
        /\ messages[2].role = "user"
        /\ Contains(messages[2].content, decision)
        /\ \A i \in DOMAIN messages :
              ~(messages[i].role = "user" /\ messages[i].content = user_query)

\* the second revision is under way: the history carries a revised answer
C5_Witness ==
    /\ pc = "revise"
    /\ revision_rounds = 2
    /\ user_query # <<>>
    /\ FixLines(decision) # {}

\* C6: a response that starts with neither ENOUGH nor REVISE: (letter case
\* ignored) ends the question: no increment of revision_rounds, no research
\* call
C6_NeitherLiteralStops ==
    [][(CriticStep /\ ~StartsWith(Upper(decision'), ENOUGH)
                   /\ ~StartsWith(Upper(decision'), REVISE \o <<":">>)) =>
          /\ pc' = "input"
          /\ revision_rounds' = revision_rounds
          /\ research_calls' = research_calls]_vars

\* C7 as stated: once an answer was persisted, output.txt has the five
\* headers in order
C7_AsStated ==
    output # <<>> => HeadersInOrder(output)

\* C7 (amended): whenever an answer is returned or output.txt is written,
\* output.txt has afterwards exactly those of the five headers that the
\* returned text has, and has the five in order exactly when the returned
\* text has
C7_HeadersAsReturned ==
    [][(ResearchStep \/ output' # output \/ current_text' # current_text) =>
          /\ output' # <<>>
          /\ \A k \in DOMAIN required :
                Contains(output', required[k])
                    <=> Contains(current_text', required[k])
          /\ HeadersInOrder(output') <=> HeadersInOrder(current_text')]_vars

\* an answer without Sources: was persisted
C7_Witness ==
    /\ output # <<>>
    /\ current_text = NoSourcesText
    /\ ~Contains(output, SourcesHeader)
    /\ Contains(output, KeyTakeawaysHeader)

\* C8 as stated: output.txt is exactly the text the research agent returned
C8_AsStated ==
    output # <<>> => output = current_text

\* C8 (amended): output.txt is the returned text without its leading and
\* trailing white space, then one newline, and nothing else; when the first
\* critic response is ENOUGH the question ends with revision_rounds = 0 and
\* output.txt holding the initial answer in that form
C8_OutputIsAnswer ==
    /\ output # <<>> => OutputIsTrimmedAnswer(output, current_text)
    /\ (pc = "input" /\ critique_rounds = 1 /\ critic_result = ENOUGH) =>
          /\ revision_rounds = 0
          /\ research_calls = 1
          /\ Len(messages) = 1
          /\ OutputIsTrimmedAnswer(output, current_text)

\* the first critic response was ENOUGH, the initial answer had white space
\* around it
C8_Witness ==
    /\ pc = "input"
    /\ critique_rounds = 1
    /\ critic_result = ENOUGH
    /\ current_text = NoSourcesText
    /\ output # current_text

C10_WarningIffMissing ==
    [][ResearchStep =>
          /\ ("FORMAT WARNING" \in Range(printed')) <=>
                (\E k \in DOMAIN required : ~Contains(current_text', required[k]))
          /\ Range(missing_printed') =
                {h \in Range(required) : ~Contains(current_text', h)}
          /\ revision_rounds' = revision_rounds
          /\ research_calls' = research_calls
          /\ critique_rounds' - critique_rounds = critic_calls' - critic_calls
          /\ critique_rounds' - critique_rounds \in {0, 1}
          /\ OutputIsTrimmedAnswer(output', current_text')]_vars

\* the warning was printed for the answer without Sources:
C10_Witness ==
    /\ "FORMAT WARNING" \in Range(printed)
    /\ current_text = NoSourcesText
    /\ missing_printed = <<SourcesHeader>>

-----------------------------------------------------------------------------
\* a step in which a non-empty question was read
QuestionStep == pc = "input" /\ pc' = "research"

\* a step in which the work on a question ended without a fault
EndStep == InLoop /\ pc' = "input"

\* C11: a fault of the research or the critic agent ends the session at once:
\* the step that reports it leaves the program dead, and from there no call
\* is made, no artifact written and no question read
C11_FaultIsFatal ==
    [][/\ pc # "crashed"
       /\ ("Traceback" \in Range(printed') /\ InLoop) =>
             /\ pc' = "crashed"
             /\ research_calls' = research_calls
             /\ critic_calls' = critic_calls
             /\ output' = output
             /\ critic_log' = critic_log
             /\ tool_log' = tool_log]_vars

\* the critic faulted in the second round
C11_Witness ==
    /\ pc = "crashed"
    /\ critique_rounds = 2
    /\ revision_rounds = 1
    /\ Len(critic_log) - log_mark = 1

\* C12: both round counters are 0 when a non-empty question has been read,
\* whatever the previous question left in them, so each question can have
\* MAX_REVISIONS revisions
C12_CountersResetPerQuestion ==
    [][/\ QuestionStep => (critique_rounds' = 0 /\ revision_rounds' = 0)
       /\ (CriticStep /\ is_revise(decision') /\ ~is_enough(decision')) =>
             (revision_rounds < MAX_REVISIONS /\ pc' = "revise")]_vars

\* the second question got its three revisions after the first had one
C12_Witness ==
    /\ questions = 2
    /\ log_mark = 2
    /\ is_revise(critic_log[1].text)
    /\ revision_rounds = MAX_REVISIONS
    /\ pc = "input"

\* the line that names the counters, as the revision prompt writes it
CountersLine(critique, revision) ==
    CritiqueRoundsLabel \o Str(critique)
    \o RevisionRoundsLabel \o Str(revision)

\* C13: when the work on a question has ended, the controller has reported
\* the final values of critique_rounds and revision_rounds: the line with
\* these values is in what the ending step printed or in the message history
\* last handed to the research agent
C13_FinalCountersReported ==
    [][EndStep =>
          \/ \E i \in DOMAIN printed' : printed'[i] = "round counters"
          \/ \E i \in DOMAIN messages' :
                Contains(messages'[i].content,
                         CountersLine(critique_rounds', revision_rounds'))]_vars

\* a step in which input() returned an empty or blank line
EmptyLineStep == pc = "input" /\ pc' # "crashed" /\ user_query' = <<>>

\* a step in which input() returned the sentinel
SentinelStep == pc = "input" /\ pc' # "crashed" /\ Lower(user_query') = EXIT

\* C14: an empty or blank line is reported and skipped: the prompt comes
\* again, no call is made and no artifact, counter or message changes
C14_EmptyLineSkipped ==
    [][EmptyLineStep =>
          /\ printed' = <<"Please enter a non-empty question.">>
          /\ pc' = "input"
          /\ UNCHANGED <<research_calls, critic_calls, questions, messages,
                         critique_rounds, revision_rounds, current_text,
                         output, critic_log, tool_log>>]_vars

\* a blank line was read after a question had left its artifacts
C14_Witness ==
    /\ pc = "input"
    /\ printed = <<"Please enter a non-empty question.">>
    /\ user_query = <<>>
    /\ questions = 1
    /\ output # <<>>
    /\ critic_log # <<>>

\* what reading the sentinel does, and that nothing follows it
SentinelEnds ==
    /\ pc # "exited"
    /\ SentinelStep =>
          /\ pc' = "exited"
          /\ UNCHANGED <<research_calls, critic_calls, questions, messages,
                         output, critic_log, tool_log>>
    /\ pc' = "exited" => SentinelStep

\* C15 as stated: the sentinel ends the session, nothing follows it, and a
\* session ends only by the sentinel or by a fault of a collaborator
C15_AsStated ==
    [][/\ SentinelEnds
       /\ pc' = "crashed" => InLoop]_vars

\* C15 (amended): the sentinel ends the session and nothing follows it; a
\* session ends only by the sentinel, by a fault of a collaborator or by
\* input() failing at the end of the input
C15_SentinelEndsSession ==
    [][/\ SentinelEnds
       /\ pc' = "crashed" =>
             /\ InLoop \/ pc = "input"
             /\ "Traceback" \in Range(printed')
             /\ pc = "input" => UNCHANGED <<user_query, research_calls,
                                            critic_calls, output, critic_log,
                                            tool_log>>]_vars

\* the sentinel, in mixed case and padded, was read after a question
C15_Witness ==
    /\ pc = "exited"
    /\ user_query # EXIT
    /\ Lower(user_query) = EXIT
    /\ questions = 1
    /\ printed = <<"Exiting. Goodbye!">>

\* the blocks the critic log got for the current question
QuestionBlocks == Len(critic_log) - log_mark

\* C16 as stated: at every point the critic log has as many blocks for the
\* current question as critique_rounds says
C16_AsStated ==
    QuestionBlocks = critique_rounds

\* C16 (amended): the critic log has one block per critique round of the
\* question, numbered 1, 2, ...; their number is critique_rounds, but one less
\* while the critic call of a round is in progress or has faulted; the step
\* that acts on a response appends the block, with the round, the time of the
\* step and the trimmed response, and no other step writes the log
C16_OneBlockPerRound ==
    [][/\ QuestionBlocks' =
             IF pc' = "critic" \/ (pc = "critic" /\ pc' = "crashed")
             THEN critique_rounds' - 1 ELSE critique_rounds'
       /\ \A i \in 1..QuestionBlocks' : critic_log'[log_mark' + i].round = i
       /\ CriticStep =>
             /\ Len(critic_log') = Len(critic_log) + 1
             /\ critic_log'[Len(critic_log')].round = critique_rounds
             /\ critic_log'[Len(critic_log')].ts = now
             /\ OutputIsTrimmedAnswer(critic_log'[Len(critic_log')].text,
                                      critic_result')
       /\ ~CriticStep => critic_log' = critic_log]_vars

\* two rounds were logged at different times and the revision is under way
C16_Witness ==
    /\ pc = "revise"
    /\ QuestionBlocks = 2
    /\ critic_log[log_mark + 1].ts = 0
    /\ critic_log[log_mark + 2].ts = 1
    /\ critic_log[log_mark + 2].round = 2

\* a step in which a call of internet_search ended, by return or by exception
SearchEnds == search_call.active /\ ~search_call'.active

LastRecord(log) == log[Len(log)]

\* C17: every search invocation appends one record to the tool-call log, and
\* the record carries the tool name, the time, the query, the three call
\* parameters, the latency and the result count
C17_RecordPerSearch ==
    [][SearchEnds =>
          /\ Len(tool_log') = Len(tool_log) + 1
          /\ LastRecord(tool_log').tool = "internet_search"
          /\ LastRecord(tool_log').ts = search_call.ts
          /\ LastRecord(tool_log').query = search_call.query
          /\ LastRecord(tool_log').took_sec = now - search_call.t0
          /\ {"max_results", "topic", "include_raw_content"}
                \subseteq DOMAIN LastRecord(tool_log')]_vars

\* C18: the critic is called only by the step that took an answer from the
\* research agent, and whenever the critic call is in progress output.txt
\* holds that answer, the current one
C18_CriticSeesPersistedAnswer ==
    [][/\ critic_calls' = critic_calls + 1 => (ResearchStep /\ pc' = "critic")
       /\ pc' = "critic" =>
             /\ OutputIsTrimmedAnswer(output', current_text')
             /\ critic_calls' = critique_rounds'
             /\ research_calls' = critic_calls']_vars

\* the third critic call is in progress, on the second revision
C18_Witness ==
    /\ pc = "critic"
    /\ critic_calls = 3
    /\ revision_rounds = 2
    /\ current_text = ShuffledText
    /\ output = ShuffledText \o NL

\* C19: when the work on a question has ended, critique_rounds is at most
\* MAX_REVISIONS and exceeds revision_rounds by 0 or 1: by 0 exactly when the
\* ceiling ended the loop after a revision, the last answer then having had
\* no critic call, and by 1 exactly when a response that asked for no revision
\* ended it
C19_FinalCounters ==
    (pc = "input" /\ questions > 0) =>
        /\ critique_rounds <= MAX_REVISIONS
        /\ critique_rounds - revision_rounds \in {0, 1}
        /\ critique_rounds - revision_rounds = 0 <=>
              /\ revision_rounds = MAX_REVISIONS
              /\ StartsWith(Upper(decision), REVISE)
              /\ research_calls = critic_calls + 1
        /\ critique_rounds - revision_rounds = 1 <=>
              /\ ~StartsWith(Upper(decision), REVISE)
              /\ research_calls = critic_calls

\* a question ended at the ceiling
C19_Witness ==
    /\ pc = "input"
    /\ questions > 0
    /\ critique_rounds = revision_rounds
    /\ "REVISED OUTPUT" \in Range(printed)

\* C20: when the research agent faults during a revision, output.txt is left
\* as it was, holding the previous answer, while revision_rounds counts the
\* revision and the critic log has the block of the round
C20_FaultInRevisionKeepsOutput ==
    [][(pc = "revise" /\ pc' = "crashed") =>
          /\ output' = output
          /\ current_text' = current_text
          /\ OutputIsTrimmedAnswer(output', current_text')
          /\ revision_rounds' >= 1
          /\ revision_rounds' = critique_rounds'
          /\ QuestionBlocks' = critique_rounds'
          /\ LastRecord(critic_log').round = critique_rounds'
          /\ LastRecord(critic_log').text = decision' \o NL
          /\ is_revise(decision')]_vars

\* the research agent faulted in the second revision
C20_Witness ==
    /\ pc = "crashed"
    /\ revision_rounds = 2
    /\ critique_rounds = 2
    /\ research_calls = 3
    /\ output # <<>>

====
